---- MODULE Spec2Model ----
(***************************************************************************)
(* Workflow diagram core of reactjs-todolist-main: the layout utilities,   *)
(* the connection utilities and the WorkflowBuilder component that holds   *)
(* the node and edge state of the diagram.                                 *)
(*                                                                         *)
(* Numbers are JavaScript numbers in the source.  The layout divides, so   *)
(* positions are modelled as exact rationals [num, den] in lowest terms    *)
(* with den > 0; two equal numbers are then equal records.  Strings are    *)
(* TLA+ strings and a template literal is a concatenation (\o).            *)
(* Presentation-only fields (title, description, color, label, onClick,    *)
(* draggable, edge style) are left out of the records.                     *)
(***************************************************************************)
EXTENDS Integers, Sequences, FiniteSets, TLC

VARIABLES
    workflowData,       \* argument of the layout / connection utilities
    config,             \* LayoutConfig argument
    expandedArg,        \* entitiesExpanded argument of createDynamicNodes
    existingEdges,      \* existingEdges argument of updateConnectionsForWorkflow
    layout,             \* value returned by calculateDynamicLayout
    retNodes,           \* value returned by createDynamicNodes
    prevNodes,          \* value createDynamicNodes returned for the other entitiesExpanded
    prevEdges,          \* value the previous call of the same connection utility returned
    thrown,             \* error the last call threw, "none" when it returned
    retEdges,           \* value returned by the connection utilities
    called,             \* which utility produced the current return values
    urlId,              \* VisualizationPage: id route parameter
    backendData,        \* useWorkflowData: backendData state (catalog key or "null")
    fetches,            \* useWorkflowData: fetches in flight, oldest first
    mode,               \* how WorkflowBuilder is mounted
    selectedWorkflowId, \* WorkflowBuilder state
    entitiesExpanded,   \* WorkflowBuilder state
    layoutConfig,       \* WorkflowBuilder prop
    shownData,          \* currentWorkflowData of the last render (catalog key)
    nodes,              \* useNodesState
    edges,              \* useEdgesState
    lastStep,           \* name of the last handler that ran
    hookType,           \* useWorkflowData on its own: type argument
    hookId,             \* useWorkflowData on its own: id argument
    hookResult,         \* useWorkflowData on its own: value returned by the last render
    selection,          \* SelectionProvider: selection state
    prevSelection,      \* SelectionProvider: selection before the last call
    selectionCall       \* SelectionProvider: the function called last

vars == <<workflowData, config, expandedArg, existingEdges, layout, retNodes,
          prevNodes, prevEdges, thrown, retEdges, called, urlId, backendData, fetches, mode,
          selectedWorkflowId, entitiesExpanded, layoutConfig, shownData,
          nodes, edges, lastStep, hookType, hookId, hookResult,
          selection, prevSelection, selectionCall>>

pureVars == <<workflowData, config, expandedArg, existingEdges, layout,
              retNodes, prevNodes, prevEdges, thrown, retEdges, called>>

builderVars == <<urlId, backendData, fetches, mode, selectedWorkflowId,
                 entitiesExpanded, layoutConfig, shownData, nodes, edges,
                 lastStep>>

hookVars == <<hookType, hookId, hookResult>>

selectionVars == <<selection, prevSelection, selectionCall>>

----------------------------------------------------------------------------
(* Bounds *)

MaxLayoutStages == 10
MaxLayoutStatus == 4
MaxLayoutEntities == 2
MaxConnStages == 3
MaxConnStatus == 3
MaxExisting == 2
MaxCustomEdges == 1
MaxFetches == 2
MaxShapedLen == 2

----------------------------------------------------------------------------
(* Exact rational arithmetic for JavaScript number expressions *)

Abs(n) == IF n < 0 THEN -n ELSE n

RECURSIVE Gcd(_, _)
Gcd(a, b) == IF b = 0 THEN a ELSE Gcd(b, a % b)

Rat(n, d) ==
    LET s == IF d < 0 THEN -1 ELSE 1
        g == Gcd(Abs(n), Abs(d))
    IN  [num |-> (s * n) \div g, den |-> (s * d) \div g]

Num(n) == [num |-> n, den |-> 1]

Plus(a, b) == Rat(a.num * b.den + b.num * a.den, a.den * b.den)

Minus(a, b) == Rat(a.num * b.den - b.num * a.den, a.den * b.den)

Times(a, b) == Rat(a.num * b.num, a.den * b.den)

Over(a, b) == Rat(a.num * b.den, a.den * b.num)

Leq(a, b) == a.num * b.den <= b.num * a.den

MathMax(a, b) == IF Leq(a, b) THEN b ELSE a

----------------------------------------------------------------------------
(* Layout utilities *)

defaultLayoutConfig ==
    [workflowWidth |-> 800, workflowHeight |-> 450, stageWidth |-> 220,
     stageHeight |-> 90, circleSize |-> 64, padding |-> 30,
     verticalSpacing |-> 40]

\* a spacing that divides the free width by the number of stages
localStageSpacing_PerStage(data, cfg) ==
    LET availableWidth == cfg.workflowWidth - (2 * cfg.padding)
        totalStageWidth == Len(data.stages) * cfg.stageWidth
    IN  IF Len(data.stages) > 1
        THEN Over(Num(availableWidth - totalStageWidth), Num(Len(data.stages)))
        ELSE Num(0)

\* const stageSpacing = stages.length > 1 ? (availableWidth - totalStageWidth) / (stages.length - 1) : 0
localStageSpacing(data, cfg) ==
    LET availableWidth == cfg.workflowWidth - (2 * cfg.padding)
        totalStageWidth == Len(data.stages) * cfg.stageWidth
    IN  IF Len(data.stages) > 1
        THEN Over(Num(availableWidth - totalStageWidth), Num(Len(data.stages) - 1))
        ELSE Num(0)

stageY == 70

circleY(cfg) == stageY + cfg.stageHeight + cfg.verticalSpacing

entitiesY(cfg) == circleY(cfg) + cfg.circleSize + cfg.verticalSpacing

\* a placement with the spacing clamped to the minimum of 20
getStagePosition_Clamped(data, cfg, index) ==
    [x |-> Plus(Num(cfg.padding),
                Times(Num(index), Plus(Num(cfg.stageWidth),
                                       MathMax(localStageSpacing(data, cfg), Num(20))))),
     y |-> Num(stageY)]

\* index is the 0-based JavaScript index
getStagePosition(data, cfg, index) ==
    [x |-> Plus(Num(cfg.padding),
                Times(Num(index), Plus(Num(cfg.stageWidth), localStageSpacing(data, cfg)))),
     y |-> Num(stageY)]

\* a status node whose left edge is aligned with its stage's left edge
getCirclePosition_LeftAligned(data, cfg, index) ==
    [x |-> getStagePosition(data, cfg, index).x,
     y |-> Num(circleY(cfg))]

getCirclePosition(data, cfg, index) ==
    [x |-> Minus(Plus(Plus(Num(cfg.padding),
                           Times(Num(index), Plus(Num(cfg.stageWidth), localStageSpacing(data, cfg)))),
                      Over(Num(cfg.stageWidth), Num(2))),
                 Over(Num(cfg.circleSize), Num(2))),
     y |-> Num(circleY(cfg))]

getEntitiesPosition(cfg) == [x |-> Num(cfg.padding), y |-> Num(entitiesY(cfg))]

calculateDynamicLayout(data, cfg) ==
    [stageSpacing |-> MathMax(localStageSpacing(data, cfg), Num(20)),
     stageY |-> stageY,
     circleY |-> circleY(cfg),
     entitiesY |-> entitiesY(cfg)]

\* a layout that moves the stage and status rows down when the entities are expanded
createDynamicNodes_ExpandedShifts(data, expanded, cfg) ==
    LET shift == IF expanded THEN Num(cfg.verticalSpacing) ELSE Num(0)
        down(p) == [x |-> p.x, y |-> Plus(p.y, shift)]
    IN  <<[id |-> "pmf-tag", type |-> "pmf-tag",
           position |-> [x |-> Num(20), y |-> Num(20)]],
          [id |-> data.workflow.id, type |-> "workflow",
           position |-> [x |-> Num(20), y |-> Num(60)],
           style |-> [width |-> cfg.workflowWidth, height |-> cfg.workflowHeight]]>>
        \o [i \in 1..Len(data.stages) |->
                [id |-> data.stages[i].id, type |-> "stage",
                 position |-> down(getStagePosition(data, cfg, i - 1)),
                 parentId |-> data.workflow.id,
                 style |-> [width |-> cfg.stageWidth, height |-> cfg.stageHeight]]]
        \o [i \in 1..Len(data.statusNodes) |->
                [id |-> data.statusNodes[i].id, type |-> "circular",
                 position |-> down(getCirclePosition(data, cfg, i - 1)),
                 parentId |-> data.workflow.id]]
        \o <<[id |-> "entities-group", type |-> "entities-group",
              position |-> getEntitiesPosition(cfg),
              parentId |-> data.workflow.id,
              entities |-> data.entities,
              entitiesExpanded |-> expanded]>>

\* a layout that returns the container alone when there is no stage
createDynamicNodes_ContainerOnly(data, expanded, cfg) ==
    LET first == <<[id |-> "pmf-tag", type |-> "pmf-tag",
                    position |-> [x |-> Num(20), y |-> Num(20)]],
                   [id |-> data.workflow.id, type |-> "workflow",
                    position |-> [x |-> Num(20), y |-> Num(60)],
                    style |-> [width |-> cfg.workflowWidth, height |-> cfg.workflowHeight]]>>
    IN  IF Len(data.stages) = 0 THEN first
        ELSE first
             \o [i \in 1..Len(data.stages) |->
                     [id |-> data.stages[i].id, type |-> "stage",
                      position |-> getStagePosition(data, cfg, i - 1),
                      parentId |-> data.workflow.id,
                      style |-> [width |-> cfg.stageWidth, height |-> cfg.stageHeight]]]
             \o [i \in 1..Len(data.statusNodes) |->
                     [id |-> data.statusNodes[i].id, type |-> "circular",
                      position |-> getCirclePosition(data, cfg, i - 1),
                      parentId |-> data.workflow.id]]
             \o <<[id |-> "entities-group", type |-> "entities-group",
                   position |-> getEntitiesPosition(cfg),
                   parentId |-> data.workflow.id,
                   entities |-> data.entities,
                   entitiesExpanded |-> expanded]>>

\* a layout that appends one data node per entity when the entities are expanded
createDynamicNodes_EntityNodes(data, expanded, cfg) ==
    <<[id |-> "pmf-tag", type |-> "pmf-tag",
       position |-> [x |-> Num(20), y |-> Num(20)]],
      [id |-> data.workflow.id, type |-> "workflow",
       position |-> [x |-> Num(20), y |-> Num(60)],
       style |-> [width |-> cfg.workflowWidth, height |-> cfg.workflowHeight]]>>
    \o [i \in 1..Len(data.stages) |->
            [id |-> data.stages[i].id, type |-> "stage",
             position |-> getStagePosition(data, cfg, i - 1),
             parentId |-> data.workflow.id,
             style |-> [width |-> cfg.stageWidth, height |-> cfg.stageHeight]]]
    \o [i \in 1..Len(data.statusNodes) |->
            [id |-> data.statusNodes[i].id, type |-> "circular",
             position |-> getCirclePosition(data, cfg, i - 1),
             parentId |-> data.workflow.id]]
    \o (IF expanded
        THEN [i \in 1..Len(data.entities) |->
                [id |-> data.entities[i].id, type |-> "data",
                 position |-> getEntitiesPosition(cfg),
                 parentId |-> "entities-group"]]
        ELSE <<>>)
    \o <<[id |-> "entities-group", type |-> "entities-group",
          position |-> getEntitiesPosition(cfg),
          parentId |-> data.workflow.id,
          entities |-> data.entities,
          entitiesExpanded |-> expanded]>>

createDynamicNodes(data, expanded, cfg) ==
    LET pmf == [id |-> "pmf-tag", type |-> "pmf-tag",
                position |-> [x |-> Num(20), y |-> Num(20)]]
        container == [id |-> data.workflow.id, type |-> "workflow",
                      position |-> [x |-> Num(20), y |-> Num(60)],
                      style |-> [width |-> cfg.workflowWidth, height |-> cfg.workflowHeight]]
        stageNodes == [i \in 1..Len(data.stages) |->
                        [id |-> data.stages[i].id, type |-> "stage",
                         position |-> getStagePosition(data, cfg, i - 1),
                         parentId |-> data.workflow.id,
                         style |-> [width |-> cfg.stageWidth, height |-> cfg.stageHeight]]]
        circleNodes == [i \in 1..Len(data.statusNodes) |->
                         [id |-> data.statusNodes[i].id, type |-> "circular",
                          position |-> getCirclePosition(data, cfg, i - 1),
                          parentId |-> data.workflow.id]]
        group == [id |-> "entities-group", type |-> "entities-group",
                  position |-> getEntitiesPosition(cfg),
                  parentId |-> data.workflow.id,
                  entities |-> data.entities,
                  entitiesExpanded |-> expanded]
    IN  <<pmf, container>> \o stageNodes \o circleNodes \o <<group>>

----------------------------------------------------------------------------
(* Connection utilities *)

HasLink(status) == "connectedToStage" \in DOMAIN status

\* a pairing by position only, without the find
correspondingStatus_ByIndexOnly(data, i) ==
    IF i <= Len(data.statusNodes) THEN <<data.statusNodes[i]>> ELSE <<>>

\* a fallback that skips a status node carrying a connectedToStage
correspondingStatus_FallbackUnlinkedOnly(data, i) ==
    LET declaring == {k \in 1..Len(data.statusNodes) :
                         /\ HasLink(data.statusNodes[k])
                         /\ data.statusNodes[k].connectedToStage = data.stages[i].id}
        first == CHOOSE k \in declaring : \A j \in declaring : k <= j
    IN  IF declaring # {} THEN <<data.statusNodes[first]>>
        ELSE IF i <= Len(data.statusNodes) /\ ~ HasLink(data.statusNodes[i])
             THEN <<data.statusNodes[i]>>
        ELSE <<>>

\* statusNodes.find(status => status.connectedToStage === stage.id) || statusNodes[index]
correspondingStatus(data, i) ==
    LET declaring == {k \in 1..Len(data.statusNodes) :
                         /\ HasLink(data.statusNodes[k])
                         /\ data.statusNodes[k].connectedToStage = data.stages[i].id}
        \* find returns the first element that passes the test
        first == CHOOSE k \in declaring : \A j \in declaring : k <= j
    IN  IF declaring # {} THEN <<data.statusNodes[first]>>
        ELSE IF i <= Len(data.statusNodes) THEN <<data.statusNodes[i]>>
        ELSE <<>>

\* an edge that leads to the first entity of a status node that names entities
stageToStatusEdge_ToEntity(data, i) ==
    LET found == correspondingStatus(data, i)
    IN  IF found # <<>>
        THEN <<[id |-> data.stages[i].id \o "-to-" \o found[1].id,
                source |-> data.stages[i].id,
                target |-> IF "connectedToEntities" \in DOMAIN found[1]
                           THEN found[1].connectedToEntities[1]
                           ELSE found[1].id,
                stroke |-> "#000"]>>
        ELSE <<>>

stageToStatusEdge(data, i) ==
    LET found == correspondingStatus(data, i)
    IN  IF found # <<>>
        THEN <<[id |-> data.stages[i].id \o "-to-" \o found[1].id,
                source |-> data.stages[i].id,
                target |-> found[1].id,
                stroke |-> "#000"]>>
        ELSE <<>>

\* a sequencing edge to the stage at the status node's own index
statusToNextStageEdge_SameIndex(data, i) ==
    IF i <= Len(data.stages)
    THEN <<[id |-> data.statusNodes[i].id \o "-to-" \o data.stages[i].id,
            source |-> data.statusNodes[i].id,
            target |-> data.stages[i].id,
            stroke |-> "#666"]>>
    ELSE <<>>

\* a sequencing edge to the stage the status node declares, when it declares one
statusToNextStageEdge_ToDeclared(data, i) ==
    IF HasLink(data.statusNodes[i])
    THEN <<[id |-> data.statusNodes[i].id \o "-to-" \o data.statusNodes[i].connectedToStage,
            source |-> data.statusNodes[i].id,
            target |-> data.statusNodes[i].connectedToStage,
            stroke |-> "#666"]>>
    ELSE IF i + 1 <= Len(data.stages)
    THEN <<[id |-> data.statusNodes[i].id \o "-to-" \o data.stages[i + 1].id,
            source |-> data.statusNodes[i].id,
            target |-> data.stages[i + 1].id,
            stroke |-> "#666"]>>
    ELSE <<>>

statusToNextStageEdge(data, i) ==
    IF i + 1 <= Len(data.stages)
    THEN <<[id |-> data.statusNodes[i].id \o "-to-" \o data.stages[i + 1].id,
            source |-> data.statusNodes[i].id,
            target |-> data.stages[i + 1].id,
            stroke |-> "#666"]>>
    ELSE <<>>

\* stages.forEach(...): what the first n iterations push
RECURSIVE stageLoop(_, _)
stageLoop(data, n) ==
    IF n = 0 THEN <<>> ELSE stageLoop(data, n - 1) \o stageToStatusEdge(data, n)

\* statusNodes.forEach(...): what the first n iterations push
RECURSIVE statusLoop(_, _)
statusLoop(data, n) ==
    IF n = 0 THEN <<>> ELSE statusLoop(data, n - 1) \o statusToNextStageEdge(data, n)

\* an accumulator kept outside the function: it still holds the edges of the
\* previous call
edgesAtEntry_Retained(previous) == previous

\* const edges: Edge[] = [] -- a fresh list at every call, whatever the
\* previous call returned
edgesAtEntry(previous) == <<>>

\* an inference that stops after the stage-to-status loop
generateIntelligentConnections_StagesOnly(data) ==
    stageLoop(data, Len(data.stages))

generateIntelligentConnections(data) ==
    stageLoop(data, Len(data.stages)) \o statusLoop(data, Len(data.statusNodes))

\* a merge that keeps every existing edge
updateConnectionsForWorkflow_NoFilter(data, existing) ==
    generateIntelligentConnections(data) \o existing

updateConnectionsForWorkflow(data, existing) ==
    LET newConnections == generateIntelligentConnections(data)
        customEdges == SelectSeq(existing,
                           LAMBDA edge : ~ \E k \in 1..Len(newConnections) :
                                               newConnections[k].id = edge.id)
    IN  newConnections \o customEdges

----------------------------------------------------------------------------
(* Inputs of the utilities *)

NoValue == <<>>

\* null / undefined where the other values are strings
Null == "null"

\* WorkflowData with n stages, m status nodes and k entities; the layout
\* reads the lengths of the lists and copies the ids
LayoutData(n, m, k) ==
    [workflow |-> [id |-> "wf"],
     stages |-> [i \in 1..n |-> [id |-> "stage-" \o ToString(i)]],
     statusNodes |-> [i \in 1..m |-> [id |-> "status-" \o ToString(i)]],
     entities |-> [i \in 1..k |-> [id |-> "entity-" \o ToString(i)]]]

LayoutConfigs ==
    {[defaultLayoutConfig EXCEPT !.workflowWidth = w, !.stageWidth = sw, !.padding = p,
                                 !.circleSize = cs] :
        w \in {800, 1200}, sw \in {220, 100}, p \in {30, 10}, cs \in {64, 51}}

StageIdPool == {"A", "B", "A-to-s1"}

StatusIdPool == {"s1", "s2", "s1-to-s2"}

LinkPool == StageIdPool \cup {"no-such-stage"}

Distinct(seq) == \A i, j \in 1..Len(seq) : i # j => seq[i] # seq[j]

SeqsUpTo(S, n) == UNION {[1..k -> S] : k \in 0..n}

\* connectedToEntities?: string[] -- the status nodes "s1" and "s2" name
\* entities, "s1-to-s2" does not carry the field
WithEntities(status) ==
    IF status.id = "s1" THEN [f \in DOMAIN status \cup {"connectedToEntities"} |->
            IF f = "connectedToEntities" THEN <<"e1">> ELSE status[f]]
    ELSE IF status.id = "s2" THEN [f \in DOMAIN status \cup {"connectedToEntities"} |->
            IF f = "connectedToEntities" THEN <<"e1", "e2">> ELSE status[f]]
    ELSE status

StatusPool ==
    {WithEntities(r) :
        r \in {[id |-> i] : i \in StatusIdPool}
            \cup {[id |-> i, connectedToStage |-> l] : i \in StatusIdPool, l \in LinkPool}}

Ids(seq) == [i \in 1..Len(seq) |-> seq[i].id]

ConnData ==
    {[workflow |-> [id |-> "wf"],
      stages |-> [i \in 1..Len(st) |-> [id |-> st[i]]],
      statusNodes |-> sn,
      entities |-> <<[id |-> "e1"], [id |-> "e2"]>>] :
        st \in {q \in SeqsUpTo(StageIdPool, MaxConnStages) : Distinct(q)},
        sn \in {q \in SeqsUpTo(StatusPool, MaxConnStatus) : Distinct(Ids(q))}}

\* edges a caller may hold: user-drawn ones and ones whose id is also the id
\* of an edge the inference can produce
ExistingEdgePool ==
    {[id |-> i, source |-> "X", target |-> "Y"] : i \in {"custom-1", "A-to-s1", "s1-to-B"}}

BuilderIdle ==
    /\ urlId = Null
    /\ backendData = Null
    /\ fetches = NoValue
    /\ mode = "unmounted"
    /\ selectedWorkflowId = Null
    /\ entitiesExpanded = FALSE
    /\ layoutConfig = NoValue
    /\ shownData = Null
    /\ nodes = NoValue
    /\ edges = NoValue
    /\ lastStep = "none"

HookIdle ==
    /\ hookType = Null
    /\ hookId = Null
    /\ hookResult = Null

SelectionIdle ==
    /\ selection = NoValue
    /\ prevSelection = NoValue
    /\ selectionCall = "none"

NoResults ==
    /\ layout = NoValue
    /\ retNodes = NoValue
    /\ prevNodes = NoValue
    /\ prevEdges = NoValue
    /\ thrown = "none"
    /\ retEdges = NoValue
    /\ called = "none"

----------------------------------------------------------------------------
(* Layout utilities applied to bounded inputs *)

LayoutInit ==
    /\ \E n \in 0..MaxLayoutStages, m \in 0..MaxLayoutStatus, k \in 0..MaxLayoutEntities :
            workflowData = LayoutData(n, m, k)
    /\ config \in LayoutConfigs
    /\ expandedArg \in BOOLEAN
    /\ existingEdges = NoValue
    /\ NoResults
    /\ BuilderIdle
    /\ HookIdle
    /\ SelectionIdle

CallCalculateDynamicLayout ==
    /\ called # "calculateDynamicLayout"
    /\ layout' = calculateDynamicLayout(workflowData, config)
    /\ called' = "calculateDynamicLayout"
    /\ UNCHANGED <<workflowData, config, expandedArg, existingEdges, retNodes,
                   prevNodes, prevEdges, thrown, retEdges>>
    /\ UNCHANGED builderVars
    /\ UNCHANGED <<hookVars, selectionVars>>

CallCreateDynamicNodes ==
    /\ called # "createDynamicNodes"
    /\ retNodes' = createDynamicNodes(workflowData, expandedArg, config)
    /\ called' = "createDynamicNodes"
    /\ UNCHANGED <<workflowData, config, expandedArg, existingEdges, layout,
                   prevNodes, prevEdges, thrown, retEdges>>
    /\ UNCHANGED builderVars
    /\ UNCHANGED <<hookVars, selectionVars>>

\* the same data and config laid out again with the other entitiesExpanded
CallCreateDynamicNodesToggled ==
    /\ retNodes # NoValue
    /\ expandedArg' = ~ expandedArg
    /\ prevNodes' = retNodes
    /\ UNCHANGED prevEdges
    /\ retNodes' = createDynamicNodes(workflowData, ~ expandedArg, config)
    /\ called' = "createDynamicNodes"
    /\ UNCHANGED <<workflowData, config, existingEdges, layout, thrown, retEdges>>
    /\ UNCHANGED builderVars
    /\ UNCHANGED <<hookVars, selectionVars>>

LayoutNext ==
    \/ CallCalculateDynamicLayout
    \/ CallCreateDynamicNodes
    \/ CallCreateDynamicNodesToggled

LayoutSpec == LayoutInit /\ [][LayoutNext]_vars

----------------------------------------------------------------------------
(* Connection utilities applied to bounded inputs *)

ConnInit ==
    /\ workflowData \in ConnData
    /\ config = defaultLayoutConfig
    /\ expandedArg = FALSE
    /\ existingEdges = <<>>
    /\ NoResults
    /\ BuilderIdle
    /\ HookIdle
    /\ SelectionIdle

CallGenerateIntelligentConnections ==
    /\ called = "none"
    /\ retEdges' = generateIntelligentConnections(workflowData)
    /\ called' = "generateIntelligentConnections"
    /\ UNCHANGED <<workflowData, config, expandedArg, existingEdges, layout, retNodes,
                   prevNodes, prevEdges, thrown>>
    /\ UNCHANGED builderVars
    /\ UNCHANGED <<hookVars, selectionVars>>

CallUpdateConnectionsForWorkflow ==
    /\ called = "none"
    /\ \E existing \in SeqsUpTo(ExistingEdgePool, MaxExisting) :
            /\ existingEdges' = existing
            /\ retEdges' = updateConnectionsForWorkflow(workflowData, existing)
    /\ called' = "updateConnectionsForWorkflow"
    /\ UNCHANGED <<workflowData, config, expandedArg, layout, retNodes, prevNodes, prevEdges, thrown>>
    /\ UNCHANGED builderVars
    /\ UNCHANGED <<hookVars, selectionVars>>

\* a second call on the same WorkflowData
CallGenerateIntelligentConnectionsAgain ==
    /\ called = "generateIntelligentConnections"
    /\ prevEdges' = retEdges
    /\ retEdges' = edgesAtEntry(retEdges) \o generateIntelligentConnections(workflowData)
    /\ called' = "generateIntelligentConnections twice"
    /\ UNCHANGED <<workflowData, config, expandedArg, existingEdges, layout, retNodes,
                   prevNodes, thrown>>
    /\ UNCHANGED builderVars
    /\ UNCHANGED <<hookVars, selectionVars>>

ConnNext ==
    \/ CallGenerateIntelligentConnections
    \/ CallUpdateConnectionsForWorkflow
    \/ CallGenerateIntelligentConnectionsAgain

ConnSpec == ConnInit /\ [][ConnNext]_vars

----------------------------------------------------------------------------
(* WorkflowData of any shape: what a backend response may hold *)

\* A field of the response is a member of the record or not (absent); a
\* present field is an array [kind |-> "array", items |-> <<...>>] or a plain
\* object [kind |-> "object"] that is not list-shaped.
FieldNames == {"workflow", "stages", "statusNodes", "entities"}

FieldShapes(f) ==
    IF f = "workflow" THEN {"present", "absent"} ELSE {"array", "absent", "object"}

ShapedField(f, shape, well) ==
    IF f = "workflow" THEN well.workflow
    ELSE IF shape = "array" THEN [kind |-> "array", items |-> well[f]]
    ELSE [kind |-> "object"]

ShapedData ==
    {[f \in {g \in FieldNames : sh[g] # "absent"} |->
            ShapedField(f, sh[f], LayoutData(n, m, k))] :
        sh \in {t \in [FieldNames -> {"present", "array", "absent", "object"}] :
                    \A f \in FieldNames : t[f] \in FieldShapes(f)},
        n \in 0..MaxShapedLen, m \in 0..MaxShapedLen, k \in 1..MaxShapedLen}

Present(data, f) == f \in DOMAIN data

IsArray(data, f) == Present(data, f) /\ data[f].kind = "array"

WellFormed(data) ==
    /\ Present(data, "workflow")
    /\ \A f \in {"stages", "statusNodes", "entities"} : IsArray(data, f)

\* WorkflowAPI.fetchWorkflow:
\* if (!data.workflow || !data.stages || !data.statusNodes || !data.entities) throw
\* (an object and an array, even an empty one, are truthy)
fetchWorkflowRejects(data) == \E f \in FieldNames : ~ Present(data, f)

\* createDynamicNodes throws a TypeError when it reads stages.length of an
\* absent stages, workflow.id of an absent workflow, or calls forEach on a
\* stages or statusNodes that is absent or not an array; it never reads
\* inside entities
createDynamicNodesThrows(data) ==
    \/ ~ Present(data, "stages")
    \/ ~ Present(data, "workflow")
    \/ ~ IsArray(data, "stages")
    \/ ~ IsArray(data, "statusNodes")

\* the WorkflowData the utilities see when nothing has thrown: entities is
\* whatever the response held
AsWorkflowData(data) ==
    [workflow |-> data.workflow,
     stages |-> data.stages.items,
     statusNodes |-> data.statusNodes.items,
     entities |-> IF IsArray(data, "entities") THEN data.entities.items
                  ELSE IF Present(data, "entities") THEN "[object Object]"
                  ELSE "undefined"]

ValidationInit ==
    /\ workflowData \in ShapedData
    /\ config = defaultLayoutConfig
    /\ expandedArg \in BOOLEAN
    /\ existingEdges = <<>>
    /\ NoResults
    /\ BuilderIdle
    /\ HookIdle
    /\ SelectionIdle

\* WorkflowAPI.fetchWorkflow receives the response
fetchWorkflow ==
    /\ called = "none"
    /\ called' = "fetchWorkflow"
    /\ thrown' = IF fetchWorkflowRejects(workflowData) THEN "Error" ELSE "none"
    /\ UNCHANGED <<workflowData, config, expandedArg, existingEdges, layout, retNodes,
                   prevNodes, prevEdges, retEdges>>
    /\ UNCHANGED builderVars
    /\ UNCHANGED <<hookVars, selectionVars>>

\* WorkflowBuilder's first render of the data: createDynamicNodes, then
\* updateConnectionsForWorkflow.  useWorkflowData hands the data over without
\* calling fetchWorkflow; a caller of fetchWorkflow renders what it returned.
renderWorkflowData ==
    /\ called \in {"none", "fetchWorkflow"}
    /\ thrown = "none"
    /\ called' = "WorkflowBuilder"
    /\ IF createDynamicNodesThrows(workflowData)
       THEN /\ thrown' = "TypeError"
            /\ UNCHANGED <<retNodes, retEdges>>
       ELSE /\ thrown' = "none"
            /\ retNodes' = createDynamicNodes(AsWorkflowData(workflowData),
                                              expandedArg, config)
            /\ retEdges' = updateConnectionsForWorkflow(AsWorkflowData(workflowData),
                                                        existingEdges)
    /\ UNCHANGED <<workflowData, config, expandedArg, existingEdges, layout, prevNodes, prevEdges>>
    /\ UNCHANGED builderVars
    /\ UNCHANGED <<hookVars, selectionVars>>

ValidationNext == fetchWorkflow \/ renderWorkflowData

ValidationSpec == ValidationInit /\ [][ValidationNext]_vars

----------------------------------------------------------------------------
(* Mock data *)

St(i) == [id |-> i]

Sn(i, stage) == [id |-> i, connectedToStage |-> stage]

mockWorkflows ==
    [k \in {"hypo-loan-position", "hypo-loan", "workflow-1", "workflow-2"} |->
        CASE k = "hypo-loan-position" ->
                [workflow |-> [id |-> "hypo-loan-position-workflow"],
                 stages |-> <<St("stage-node"), St("enrich-node")>>,
                 statusNodes |-> <<Sn("staged-circle", "stage-node"),
                                   Sn("position-created-circle", "enrich-node")>>,
                 entities |-> <<St("data-entity-1"), St("data-entity-2"),
                                St("data-entity-3")>>]
          [] k = "hypo-loan" ->
                [workflow |-> [id |-> "hypo-loan-workflow"],
                 stages |-> <<St("validate-stage"), St("process-stage"),
                              St("approve-stage")>>,
                 statusNodes |-> <<Sn("validated-status", "validate-stage"),
                                   Sn("processed-status", "process-stage"),
                                   Sn("approved-status", "approve-stage")>>,
                 entities |-> <<St("loan-entity"), St("customer-entity"),
                                St("approval-entity"), St("rate-entity")>>]
          [] k = "workflow-1" ->
                [workflow |-> [id |-> "workflow-1-id"],
                 stages |-> <<St("registration-stage"), St("verification-stage")>>,
                 statusNodes |-> <<Sn("registered-status", "registration-stage"),
                                   Sn("verified-status", "verification-stage")>>,
                 entities |-> <<St("customer-profile"), St("verification-record"),
                                St("compliance-check")>>]
          [] k = "workflow-2" ->
                [workflow |-> [id |-> "workflow-2-id"],
                 stages |-> <<St("capture-stage"), St("authorize-stage"),
                              St("settle-stage")>>,
                 statusNodes |-> <<Sn("captured-status", "capture-stage"),
                                   Sn("authorized-status", "authorize-stage"),
                                   Sn("settled-status", "settle-stage")>>,
                 entities |-> <<St("payment-details"), St("auth-record"),
                                St("settlement-record"), St("merchant-account"),
                                St("transaction-log")>>]]

defaultWorkflow == "hypo-loan-position"

\* the ids the sidebar offers (WorkflowSidebar.workflows)
sidebarWorkflows == {"hypo-loan-position", "hypo-loan", "workflow-1", "workflow-2"}

----------------------------------------------------------------------------
(* WorkflowBuilder, alone or under VisualizationPage *)

\* A WorkflowData object is identified by its catalog key: every data object
\* the builder is given is an element of mockWorkflows, and React compares
\* effect dependencies by object identity.

\* VisualizationPage: const workflowId = id || 'workflow-1'
pageWorkflowId(id) == IF id = Null THEN "workflow-1" ELSE id

\* useWorkflowData's return value: backendData || mockWorkflows[id] || null
useWorkflowDataResult(backend, id) ==
    IF backend # Null THEN backend
    ELSE IF id \in DOMAIN mockWorkflows THEN id
    ELSE Null

\* fetchWorkflowFromBackend's result: mockWorkflows[workflowId] || null
fetchResult(id) == IF id \in DOMAIN mockWorkflows THEN id ELSE Null

\* externalWorkflowData || mockWorkflows[selectedWorkflowId] || mockWorkflows[defaultWorkflow]
currentWorkflowData(m, backend, id, selected) ==
    IF m = "page" /\ useWorkflowDataResult(backend, pageWorkflowId(id)) # Null
    THEN useWorkflowDataResult(backend, pageWorkflowId(id))
    ELSE IF selected \in DOMAIN mockWorkflows THEN selected
    ELSE defaultWorkflow

\* dependency test of the nodes effect: [entitiesExpanded, currentWorkflowData, layoutConfig, setNodes]
nodesEffectRuns(oldData, newData, oldExpanded, newExpanded, oldCfg, newCfg) ==
    oldData # newData \/ oldExpanded # newExpanded \/ oldCfg # newCfg

\* an edges effect without its dependency list runs after every render
edgesEffectRuns_EveryRender(oldData, newData) == TRUE

\* dependency test of the edges effect: [currentWorkflowData, setEdges]
edgesEffectRuns(oldData, newData) == oldData # newData

\* an edges effect that hands the current edges to the merge
edgesEffect_KeepExisting(data, eds) ==
    updateConnectionsForWorkflow(mockWorkflows[data], eds)

\* body of the edges effect: setEdges(updateConnectionsForWorkflow(currentWorkflowData))
edgesEffect(data, eds) == updateConnectionsForWorkflow(mockWorkflows[data], <<>>)

\* addEdge of @xyflow/react as onConnect uses it: the connection gets the id
\* xy-edge__<source>-<target> (the handles have no ids) and is appended
\* unless an edge with the same source and target is already there
addEdge(source, target, eds) ==
    IF \E k \in 1..Len(eds) : eds[k].source = source /\ eds[k].target = target
    THEN eds
    ELSE Append(eds, [id |-> "xy-edge__" \o source \o "-" \o target,
                      source |-> source, target |-> target])

\* the connections the model lets the user draw: among the first two stage
\* nodes and the first status node
ConnectEnds(ns) ==
    LET stageIds == {ns[k].id : k \in {j \in 3..4 : j <= Len(ns) /\ ns[j].type = "stage"}}
        firstCircle == {k \in 1..Len(ns) :
                            /\ ns[k].type = "circular"
                            /\ \A j \in 1..(k - 1) : ns[j].type # "circular"}
    IN  stageIds \cup {ns[k].id : k \in firstCircle}

\* the edges addEdge appended (they carry no style)
UserDrawn(eds) == SelectSeq(eds, LAMBDA e : "stroke" \notin DOMAIN e)

InferredIds(data) ==
    LET inferred == generateIntelligentConnections(mockWorkflows[data])
    IN  {inferred[k].id : k \in 1..Len(inferred)}

CustomEdges(eds, data) ==
    {eds[k] : k \in {j \in 1..Len(eds) : eds[j].id \notin InferredIds(data)}}

BuilderConfigs ==
    {defaultLayoutConfig, [defaultLayoutConfig EXCEPT !.workflowWidth = 1200]}

PureIdle ==
    /\ workflowData = NoValue
    /\ config = NoValue
    /\ expandedArg = FALSE
    /\ existingEdges = NoValue
    /\ NoResults

\* first render and mount effects
Init ==
    /\ PureIdle
    /\ HookIdle
    /\ SelectionIdle
    /\ mode \in {"standalone", "page"}
    /\ IF mode = "page"
       THEN /\ urlId \in sidebarWorkflows \cup {Null}
            /\ fetches = <<pageWorkflowId(urlId)>>
            /\ selectedWorkflowId = pageWorkflowId(urlId)
            /\ layoutConfig = defaultLayoutConfig
       ELSE /\ urlId = Null
            /\ fetches = <<>>
            /\ selectedWorkflowId = defaultWorkflow
            /\ layoutConfig \in BuilderConfigs
    /\ backendData = Null
    /\ entitiesExpanded = FALSE
    /\ shownData = currentWorkflowData(mode, backendData, urlId, selectedWorkflowId)
    /\ nodes = createDynamicNodes(mockWorkflows[shownData], entitiesExpanded, layoutConfig)
    /\ edges = updateConnectionsForWorkflow(mockWorkflows[shownData], <<>>)
    /\ lastStep = [handler |-> "mount", effects |-> {"nodes", "edges"}]

\* The render that follows a state or prop change, with the effects whose
\* dependencies changed.  The primed url, backendData, selectedWorkflowId,
\* entitiesExpanded and layoutConfig are set by the handler.
Render(handler) ==
    LET data == currentWorkflowData(mode, backendData', urlId', selectedWorkflowId')
        runNodes == nodesEffectRuns(shownData, data, entitiesExpanded,
                                    entitiesExpanded', layoutConfig, layoutConfig')
        runEdges == edgesEffectRuns(shownData, data)
    IN  /\ shownData' = data
        /\ nodes' = IF runNodes
                    THEN createDynamicNodes(mockWorkflows[data], entitiesExpanded',
                                            layoutConfig')
                    ELSE nodes
        /\ edges' = IF runEdges THEN edgesEffect(data, edges) ELSE edges
        /\ lastStep' = [handler |-> handler,
                        effects |-> (IF runNodes THEN {"nodes"} ELSE {})
                                        \cup (IF runEdges THEN {"edges"} ELSE {})]

\* sidebar click without an external handler
handleWorkflowSelect(workflowId) ==
    /\ mode = "standalone"
    /\ IF workflowId \in DOMAIN mockWorkflows
       THEN selectedWorkflowId' = workflowId /\ entitiesExpanded' = FALSE
       ELSE UNCHANGED <<selectedWorkflowId, entitiesExpanded>>
    /\ UNCHANGED <<urlId, backendData, fetches, mode, layoutConfig>>
    /\ Render("handleWorkflowSelect")
    /\ UNCHANGED pureVars
    /\ UNCHANGED <<hookVars, selectionVars>>

\* sidebar click under VisualizationPage: navigate, and the fetch that the
\* change of the id route parameter starts
navigateToWorkflow(workflowId) ==
    /\ mode = "page"
    /\ urlId' = workflowId
    /\ IF pageWorkflowId(workflowId) # pageWorkflowId(urlId)
       THEN /\ Len(fetches) < MaxFetches
            /\ fetches' = Append(fetches, pageWorkflowId(workflowId))
       ELSE UNCHANGED fetches
    /\ UNCHANGED <<backendData, mode, selectedWorkflowId, entitiesExpanded, layoutConfig>>
    /\ Render("navigateToWorkflow")
    /\ UNCHANGED pureVars
    /\ UNCHANGED <<hookVars, selectionVars>>

\* the 100 ms timers fire in the order they were set
fetchCompletes ==
    /\ fetches # <<>>
    /\ backendData' = fetchResult(Head(fetches))
    /\ fetches' = Tail(fetches)
    /\ UNCHANGED <<urlId, mode, selectedWorkflowId, entitiesExpanded, layoutConfig>>
    /\ Render("fetchCompletes")
    /\ UNCHANGED pureVars
    /\ UNCHANGED <<hookVars, selectionVars>>

onToggleEntities ==
    /\ entitiesExpanded' = ~ entitiesExpanded
    /\ UNCHANGED <<urlId, backendData, fetches, mode, selectedWorkflowId, layoutConfig>>
    /\ Render("onToggleEntities")
    /\ UNCHANGED pureVars
    /\ UNCHANGED <<hookVars, selectionVars>>

\* the parent of a stand-alone builder passes another layoutConfig
layoutConfigChanges(cfg) ==
    /\ mode = "standalone"
    /\ cfg # layoutConfig
    /\ layoutConfig' = cfg
    /\ UNCHANGED <<urlId, backendData, fetches, mode, selectedWorkflowId, entitiesExpanded>>
    /\ Render("layoutConfigChanges")
    /\ UNCHANGED pureVars
    /\ UNCHANGED <<hookVars, selectionVars>>

onConnect(source, target) ==
    /\ Len(UserDrawn(edges)) < MaxCustomEdges
    /\ edges' = addEdge(source, target, edges)
    /\ lastStep' = [handler |-> "onConnect", effects |-> {}]
    /\ UNCHANGED <<urlId, backendData, fetches, mode, selectedWorkflowId,
                   entitiesExpanded, layoutConfig, shownData, nodes>>
    /\ UNCHANGED pureVars
    /\ UNCHANGED <<hookVars, selectionVars>>

Next ==
    \/ \E workflowId \in sidebarWorkflows : handleWorkflowSelect(workflowId)
    \/ \E workflowId \in sidebarWorkflows : navigateToWorkflow(workflowId)
    \/ fetchCompletes
    \/ onToggleEntities
    \/ \E cfg \in BuilderConfigs : layoutConfigChanges(cfg)
    \/ \E source \in ConnectEnds(nodes), target \in ConnectEnds(nodes) :
            onConnect(source, target)

Spec == Init /\ [][Next]_vars

----------------------------------------------------------------------------
(* useWorkflowData on its own, called with any type and id *)

HookTypes == {"workflow", "entity"}

\* ids a caller may pass: two of the catalog and one the catalog does not hold
HookIds == {"workflow-1", "hypo-loan", "no-such-workflow"}

\* a memo without the guard on type and id
useWorkflowDataMemo_NoGuard(type, id, backend) == useWorkflowDataResult(backend, id)

\* useMemo: if (!type || !id) return null; return backendData || mockWorkflows[id] || null
useWorkflowDataMemo(type, id, backend) ==
    IF type = Null \/ id = Null THEN Null ELSE useWorkflowDataResult(backend, id)

\* a load effect that depends on type alone
loadEffectRuns_TypeOnly(oldType, oldId, type, id) == oldType # type

\* dependency test of the load effect: [type, id]
loadEffectRuns(oldType, oldId, type, id) == oldType # type \/ oldId # id

builderOnlyVars == <<urlId, mode, selectedWorkflowId, entitiesExpanded, layoutConfig,
                     shownData, nodes, edges, lastStep>>

\* first render and the load effect of the mount
HookInit ==
    /\ PureIdle
    /\ SelectionIdle
    /\ urlId = Null /\ mode = "unmounted" /\ selectedWorkflowId = Null
    /\ entitiesExpanded = FALSE /\ layoutConfig = NoValue /\ shownData = Null
    /\ nodes = NoValue /\ edges = NoValue /\ lastStep = "none"
    /\ hookType \in HookTypes \cup {Null}
    /\ hookId \in HookIds \cup {Null}
    /\ backendData = Null
    /\ fetches = IF hookType = Null \/ hookId = Null THEN <<>> ELSE <<hookId>>
    /\ hookResult = useWorkflowDataMemo(hookType, hookId, backendData)

\* the caller renders with another type or id; the load effect either
\* clears backendData or starts a fetch, which nothing cancels
rerenderWith(type, id) ==
    /\ <<type, id>> # <<hookType, hookId>>
    /\ hookType' = type
    /\ hookId' = id
    /\ IF ~ loadEffectRuns(hookType, hookId, type, id)
       THEN UNCHANGED <<backendData, fetches>>
       ELSE IF type = Null \/ id = Null
       THEN backendData' = Null /\ UNCHANGED fetches
       ELSE /\ Len(fetches) < MaxFetches
            /\ fetches' = Append(fetches, id)
            /\ UNCHANGED backendData
    /\ hookResult' = useWorkflowDataMemo(type, id, backendData')
    /\ UNCHANGED <<builderOnlyVars, pureVars, selectionVars>>

\* the oldest 100 ms timer fires: setBackendData(mockWorkflows[workflowId] || null)
fetchResolves ==
    /\ fetches # <<>>
    /\ backendData' = fetchResult(Head(fetches))
    /\ fetches' = Tail(fetches)
    /\ hookResult' = useWorkflowDataMemo(hookType, hookId, backendData')
    /\ UNCHANGED <<hookType, hookId>>
    /\ UNCHANGED <<builderOnlyVars, pureVars, selectionVars>>

HookNext ==
    \/ \E type \in HookTypes \cup {Null}, id \in HookIds \cup {Null} : rerenderWith(type, id)
    \/ fetchResolves

HookSpec == HookInit /\ [][HookNext]_vars

----------------------------------------------------------------------------
(* SelectionProvider *)

CustomizationKeys == {"expandAllEntities", "showLegend", "showMiniMap"}

defaultCustomizations == [k \in CustomizationKeys |-> TRUE]

defaultSelection ==
    [selectedType |-> Null, selectedId |-> Null, customizations |-> defaultCustomizations]

\* ids the selectors offer: two workflows and an entity
SelectionIds == {"workflow-1", "hypo-loan", "loan-entity"}

\* Partial<ViewCustomizations>: any of the keys, each with a boolean
PartialCustomizations ==
    UNION {[keys -> BOOLEAN] : keys \in SUBSET CustomizationKeys}

\* { ...prev, selectedType: type, selectedId: id }
withSelection(prev, type, id) ==
    [prev EXCEPT !.selectedType = type, !.selectedId = id]

\* { ...prev, customizations: { ...prev.customizations, ...customizations } }
withCustomizations(prev, customizations) ==
    [prev EXCEPT !.customizations =
        [k \in CustomizationKeys |->
            IF k \in DOMAIN customizations THEN customizations[k]
            ELSE prev.customizations[k]]]

\* a clearing that keeps the customizations of the state it replaces
cleared_KeepCustomizations(prev) ==
    [defaultSelection EXCEPT !.customizations = prev.customizations]

\* setSelection(defaultSelection)
cleared(prev) == defaultSelection

SelectionInit ==
    /\ PureIdle
    /\ BuilderIdle
    /\ HookIdle
    /\ selection = defaultSelection
    /\ prevSelection = defaultSelection
    /\ selectionCall = "none"

updateSelection(type, id) ==
    /\ prevSelection' = selection
    /\ selection' = withSelection(selection, type, id)
    /\ selectionCall' = "updateSelection"
    /\ UNCHANGED <<pureVars, builderVars, hookVars>>

updateCustomizations(customizations) ==
    /\ prevSelection' = selection
    /\ selection' = withCustomizations(selection, customizations)
    /\ selectionCall' = "updateCustomizations"
    /\ UNCHANGED <<pureVars, builderVars, hookVars>>

clearSelection ==
    /\ prevSelection' = selection
    /\ selection' = cleared(selection)
    /\ selectionCall' = "clearSelection"
    /\ UNCHANGED <<pureVars, builderVars, hookVars>>

SelectionNext ==
    \/ \E type \in HookTypes, id \in SelectionIds : updateSelection(type, id)
    \/ \E customizations \in PartialCustomizations : updateCustomizations(customizations)
    \/ clearSelection

SelectionSpec == SelectionInit /\ [][SelectionNext]_vars

----------------------------------------------------------------------------
(* Properties of the layout utilities (LayoutSpec) *)

NStages == Len(workflowData.stages)

NodesReturned == retNodes # NoValue

LayoutReturned == layout # NoValue

\* the node createDynamicNodes returns for the stage at 0-based index i
StageNodeAt(i) == retNodes[3 + i]

StageX(i) == StageNodeAt(i).position.x

IsScenarioConfig ==
    config.workflowWidth = 800 /\ config.padding = 30 /\ config.stageWidth = 220

\* C1: with N > 1 stages, stage i is placed at
\* padding + i * (stageWidth + spacing), spacing being the clamped spacing
\* max((workflowWidth - 2*padding - N*stageWidth) / (N-1), 20).
C1_StagesPlacedWithClampedSpacing ==
    (NodesReturned /\ NStages > 1) =>
        LET raw == Over(Num(config.workflowWidth - 2 * config.padding
                                - NStages * config.stageWidth),
                        Num(NStages - 1))
            spacing == IF Leq(Num(20), raw) THEN raw ELSE Num(20)
        IN  \A i \in 0..(NStages - 1) :
                StageX(i) = Plus(Num(config.padding),
                                 Times(Num(i), Plus(Num(config.stageWidth), spacing)))

\* C2: with the default config and 1..10 stages the reported spacing is at
\* least 20 and consecutive stage boxes do not overlap.
C2_DefaultConfigNoOverlap ==
    (NodesReturned /\ LayoutReturned /\ config = defaultLayoutConfig
        /\ NStages \in 1..10) =>
        /\ Leq(Num(20), layout.stageSpacing)
        /\ \A i \in 0..(NStages - 2) :
               Leq(Plus(StageX(i), Num(config.stageWidth)), StageX(i + 1))

\* C3 as stated: width 800, padding 30, stage width 220 and 3 stages give
\* spacing 20 and stages at x = 30, 270, 510.
C3_ScenarioAsStated ==
    (NodesReturned /\ LayoutReturned /\ IsScenarioConfig /\ NStages = 3) =>
        /\ layout.stageSpacing = Num(20)
        /\ StageX(0) = Num(30)
        /\ StageX(1) = Num(270)
        /\ StageX(2) = Num(510)

\* C3 amended: width 800, padding 30, stage width 220 and 3 stages give
\* spacing (740 - 660) / 2 = 40 and stages at x = 30, 290, 550.
C3_ScenarioSpacing40 ==
    (NodesReturned /\ LayoutReturned /\ IsScenarioConfig /\ NStages = 3) =>
        /\ layout.stageSpacing = Num(40)
        /\ StageX(0) = Num(30)
        /\ StageX(1) = Num(290)
        /\ StageX(2) = Num(550)

C3_Witness ==
    /\ NodesReturned /\ LayoutReturned /\ IsScenarioConfig /\ NStages = 3
    /\ StageNodeAt(2).type = "stage"
    /\ StageX(2) = Num(550)

----------------------------------------------------------------------------
(* Properties of generateIntelligentConnections (ConnSpec) *)

Inferred == called = "generateIntelligentConnections"

Stages == workflowData.stages

Statuses == workflowData.statusNodes

\* positions in retEdges of the edges leaving the node with this id
EdgesFrom(id) == {k \in 1..Len(retEdges) : retEdges[k].source = id}

\* 1-based indexes of the status nodes that declare the stage
Declaring(stageId) ==
    {j \in 1..Len(Statuses) :
        HasLink(Statuses[j]) /\ Statuses[j].connectedToStage = stageId}

Least(S) == CHOOSE k \in S : \A j \in S : k <= j

\* 1-based index of the status node the stage at 1-based index i is to be
\* paired with, 0 when there is none
PairedIndex(i) ==
    IF Declaring(Stages[i].id) # {} THEN Least(Declaring(Stages[i].id))
    ELSE IF i <= Len(Statuses) THEN i
    ELSE 0

\* C4: each stage gets at most one stage-to-status edge, to the first status
\* node that declares it, else to the status node at its own index, else
\* none; the edge is <stage id> -> <status id> with id <stage>-to-<status>.
C4_StageToStatusPairing ==
    Inferred =>
        \A i \in 1..Len(Stages) :
            LET out == EdgesFrom(Stages[i].id)
                j == PairedIndex(i)
            IN  IF j = 0 THEN out = {}
                ELSE /\ Cardinality(out) = 1
                     /\ \A k \in out :
                           /\ retEdges[k].source = Stages[i].id
                           /\ retEdges[k].target = Statuses[j].id
                           /\ retEdges[k].id = Stages[i].id \o "-to-" \o Statuses[j].id

\* one stage paired by declaration with a status node at another index, one
\* stage paired by position and one stage without an edge
C4_Witness ==
    /\ Inferred
    /\ \E i \in 1..Len(Stages) :
           /\ PairedIndex(i) \notin {0, i}
           /\ Cardinality(Declaring(Stages[i].id)) = 2
           /\ EdgesFrom(Stages[i].id) # {}
    /\ \E i \in 1..Len(Stages) :
           /\ Declaring(Stages[i].id) = {}
           /\ EdgesFrom(Stages[i].id) # {}
    /\ \E i \in 1..Len(Stages) : EdgesFrom(Stages[i].id) = {}

SequencingAsCoded ==
    \A i \in 1..Len(Statuses) :
        LET out == EdgesFrom(Statuses[i].id)
        IN  IF i + 1 <= Len(Stages)
            THEN /\ Cardinality(out) = 1
                 /\ \A k \in out :
                       /\ retEdges[k].target = Stages[i + 1].id
                       /\ retEdges[k].id = Statuses[i].id \o "-to-" \o Stages[i + 1].id
            ELSE out = {}

\* C5 as stated: status i gets a sequencing edge to stage i+1 exactly when
\* that stage exists, and the status node paired with the last stage gets no
\* outgoing edge.
C5_SequencingAsStated ==
    Inferred =>
        /\ SequencingAsCoded
        /\ (Len(Stages) > 0 /\ PairedIndex(Len(Stages)) # 0) =>
               EdgesFrom(Statuses[PairedIndex(Len(Stages))].id) = {}

\* C5 amended: status i gets a sequencing edge to stage i+1 exactly when
\* that stage exists, so the status node at the index of the last stage (and
\* every later one) gets no outgoing edge, whichever stage it is paired with.
C5_SequencingByIndex ==
    Inferred =>
        /\ SequencingAsCoded
        /\ \A i \in 1..Len(Statuses) :
               i >= Len(Stages) => EdgesFrom(Statuses[i].id) = {}

\* a status node linked to the last stage but standing at an earlier index
\* keeps its sequencing edge, the one at the last index has none
C5_Witness ==
    /\ Inferred
    /\ Len(Stages) = 3 /\ Len(Statuses) = 3
    /\ PairedIndex(3) = 1
    /\ EdgesFrom(Statuses[1].id) # {}
    /\ EdgesFrom(Statuses[3].id) = {}

NoLinks == \A j \in 1..Len(Statuses) : ~ HasLink(Statuses[j])

Pairs(es) == {<<es[k].source, es[k].target>> : k \in 1..Len(es)}

\* C6: without connectedToStage and with N stages and N status nodes the
\* edges are exactly stage[i] -> status[i] (i < N) and status[i] -> stage[i+1]
\* (i < N-1); for [A,B] and [s1,s2] they are A->s1, s1->B, B->s2.
C6_PositionalFallbackEdgeSet ==
    (Inferred /\ NoLinks /\ Len(Statuses) = Len(Stages)) =>
        LET N == Len(Stages)
        IN  /\ Pairs(retEdges) =
                   {<<Stages[i].id, Statuses[i].id>> : i \in 1..N}
                       \cup {<<Statuses[i].id, Stages[i + 1].id>> : i \in 1..(N - 1)}
            /\ Len(retEdges) = IF N = 0 THEN 0 ELSE 2 * N - 1
            /\ (Ids(Stages) = <<"A", "B">> /\ Ids(Statuses) = <<"s1", "s2">>) =>
                   Pairs(retEdges) = {<<"A", "s1">>, <<"s1", "B">>, <<"B", "s2">>}

C6_Witness ==
    /\ Inferred /\ NoLinks
    /\ Ids(Stages) = <<"A", "B">> /\ Ids(Statuses) = <<"s1", "s2">>
    /\ Len(retEdges) = 3

AllIdsDistinct == Distinct(Ids(Stages) \o Ids(Statuses))

\* C10: with all stage and status ids distinct, no two inferred edges share
\* an id, and an edge's id is determined by its source and target.
C10_EdgeIdsUnique ==
    (Inferred /\ AllIdsDistinct) =>
        /\ \A i, j \in 1..Len(retEdges) : i # j => retEdges[i].id # retEdges[j].id
        /\ \A i, j \in 1..Len(retEdges) :
               (retEdges[i].source = retEdges[j].source
                    /\ retEdges[i].target = retEdges[j].target)
                   => retEdges[i].id = retEdges[j].id

----------------------------------------------------------------------------
(* Properties of updateConnectionsForWorkflow (ConnSpec) *)

Merged == called = "updateConnectionsForWorkflow"

\* positions in existingEdges of the edges whose id no inferred edge has
KeptPositions(inferred) ==
    {k \in 1..Len(existingEdges) :
        \A j \in 1..Len(inferred) : inferred[j].id # existingEdges[k].id}

\* C7: the merged list is the inferred edges in inference order followed by
\* the existing edges whose id is no inferred id, in their order and
\* unmodified; on an id collision only the inferred edge is in the result.
C7_MergeIsInferredThenCustom ==
    Merged =>
        LET inferred == generateIntelligentConnections(workflowData)
            kept == KeptPositions(inferred)
            n == Len(inferred)
        IN  /\ Len(retEdges) = n + Cardinality(kept)
            /\ \A k \in 1..n : retEdges[k] = inferred[k]
            /\ \A k \in kept :
                   retEdges[n + Cardinality({j \in kept : j <= k})] = existingEdges[k]
            /\ \A k \in 1..Len(retEdges) :
                   (\E j \in 1..n : inferred[j].id = retEdges[k].id) =>
                       \E j \in 1..n : inferred[j] = retEdges[k]

\* an existing edge with an inferred id is dropped and a custom one is kept
C7_Witness ==
    /\ Merged
    /\ Len(existingEdges) = 2
    /\ existingEdges[1].id = "A-to-s1"
    /\ existingEdges[2].id = "custom-1"
    /\ \E k \in 1..Len(retEdges) : retEdges[k].id = "A-to-s1" /\ retEdges[k].source = "A"
    /\ retEdges[Len(retEdges)] = existingEdges[2]
    /\ \A k \in 1..Len(retEdges) : retEdges[k] # existingEdges[1]

\* C28: for a WorkflowData with distinct ids and existing edges without
\* duplicate ids, merging is idempotent (merging the merged list again gives
\* the merged list) and the merged list holds no two edges with the same id.
C28_MergeIdempotentIdsUnique ==
    (Merged /\ AllIdsDistinct /\ Distinct(Ids(existingEdges))) =>
        /\ updateConnectionsForWorkflow(workflowData, retEdges) = retEdges
        /\ Distinct(Ids(retEdges))

----------------------------------------------------------------------------
(* Properties of WorkflowBuilder (Spec) *)

EdgeSet(eds) == {eds[k] : k \in 1..Len(eds)}

\* C8: a user-added edge whose id is not an inferred id stays in the edge
\* state across every recompute (expansion toggle, layout-config change)
\* that leaves the displayed workflow unchanged.
C8_CustomEdgesSurviveRecompute ==
    [][shownData' = shownData =>
           CustomEdges(edges, shownData) \subseteq EdgeSet(edges')]_vars

\* a toggle or a config change has recomputed the nodes and the user's edge
\* is still there
C8_Witness ==
    /\ lastStep.handler \in {"onToggleEntities", "layoutConfigChanges"}
    /\ "nodes" \in lastStep.effects
    /\ CustomEdges(edges, shownData) # {}
    /\ Len(UserDrawn(edges)) > 0

\* C9: when the displayed workflow switches to another WorkflowData, the
\* edge state becomes exactly the edges inferred for the new workflow.
C9_SwitchResetsEdges ==
    [][shownData' # shownData =>
           edges' = generateIntelligentConnections(mockWorkflows[shownData'])]_vars

\* the edges effect has just run for a workflow other than the one mounted
\* with, and no user-drawn edge is left
C9_Witness ==
    /\ lastStep.handler \in {"handleWorkflowSelect", "fetchCompletes"}
    /\ "edges" \in lastStep.effects
    /\ UserDrawn(edges) = <<>>
    /\ edges = generateIntelligentConnections(mockWorkflows[shownData])

----------------------------------------------------------------------------
(* Properties of createDynamicNodes under both values of entitiesExpanded *)

BothReturned == retNodes # NoValue /\ prevNodes # NoValue

GroupNode(ns) == ns[Len(ns)]

StructureNodes(ns) ==
    {k \in 1..Len(ns) : ns[k].type \in {"stage", "circular"}}

\* C11: every stage node and every status node has the same (x, y) with
\* entitiesExpanded = false and with entitiesExpanded = true.
C11_ExpansionKeepsPositions ==
    BothReturned =>
        /\ StructureNodes(retNodes) = StructureNodes(prevNodes)
        /\ \A k \in StructureNodes(retNodes) :
               /\ retNodes[k].id = prevNodes[k].id
               /\ retNodes[k].position = prevNodes[k].position

\* the collapsed and the expanded layout of a workflow with stages, status
\* nodes and entities are both at hand
C11_Witness ==
    /\ BothReturned
    /\ GroupNode(prevNodes).entitiesExpanded = FALSE
    /\ GroupNode(retNodes).entitiesExpanded = TRUE
    /\ Len(workflowData.stages) >= 2
    /\ Len(workflowData.statusNodes) >= 2
    /\ Len(workflowData.entities) >= 1

EntityIds == {workflowData.entities[i].id : i \in 1..Len(workflowData.entities)}

\* positions in a node list of the nodes that stand for an entity
EntityNodes(ns) == {k \in 1..Len(ns) : ns[k].type = "data" \/ ns[k].id \in EntityIds}

CollapsedThenExpanded ==
    /\ BothReturned
    /\ GroupNode(prevNodes).entitiesExpanded = FALSE
    /\ GroupNode(retNodes).entitiesExpanded = TRUE

\* C12 as stated: collapsed, the output has the entities-group node and no
\* entity node; expanded, it has one more node per element of data.entities.
C12_ExpansionAddsEntityNodes ==
    CollapsedThenExpanded =>
        /\ GroupNode(prevNodes).type = "entities-group"
        /\ EntityNodes(prevNodes) = {}
        /\ Len(retNodes) = Len(prevNodes) + Len(workflowData.entities)
        /\ \A id \in EntityIds : \E k \in EntityNodes(retNodes) : retNodes[k].id = id

\* C12 amended: expanding adds no node.  Collapsed and expanded outputs have
\* the same nodes, the entities-group node among them and no entity node;
\* only the group node's entitiesExpanded flag differs, and the group node
\* carries data.entities in both.
C12_ExpansionOnlySetsGroupFlag ==
    CollapsedThenExpanded =>
        /\ Len(retNodes) = Len(prevNodes)
        /\ EntityNodes(prevNodes) = {} /\ EntityNodes(retNodes) = {}
        /\ \A k \in 1..(Len(retNodes) - 1) : retNodes[k] = prevNodes[k]
        /\ GroupNode(prevNodes).type = "entities-group"
        /\ GroupNode(retNodes) = [GroupNode(prevNodes) EXCEPT !.entitiesExpanded = TRUE]
        /\ GroupNode(retNodes).entities = workflowData.entities

C12_Witness ==
    /\ CollapsedThenExpanded
    /\ Len(workflowData.entities) = 2
    /\ Len(retNodes) = 3 + Len(workflowData.stages) + Len(workflowData.statusNodes)

----------------------------------------------------------------------------
(* Further properties of the layout utilities (LayoutSpec) *)

\* the node createDynamicNodes returns for the status node at 0-based index i
CircleNodeAt(i) == retNodes[3 + NStages + i]

NodeWidth(n) == IF n.type = "stage" THEN n.style.width ELSE config.circleSize

NodeHeight(n) == IF n.type = "stage" THEN n.style.height ELSE config.circleSize

\* C13: every stage node and every status node lies inside the container:
\* 0 <= x, x + width <= workflowWidth, 0 <= y, y + height <= workflowHeight.
C13_ChildrenInsideContainer ==
    NodesReturned =>
        \A k \in StructureNodes(retNodes) :
            LET n == retNodes[k]
            IN  /\ Leq(Num(0), n.position.x)
                /\ Leq(Plus(n.position.x, Num(NodeWidth(n))), Num(config.workflowWidth))
                /\ Leq(Num(0), n.position.y)
                /\ Leq(Plus(n.position.y, Num(NodeHeight(n))), Num(config.workflowHeight))

NodeTypes(ns) == [k \in 1..Len(ns) |-> ns[k].type]

\* C14 as stated: with no stages the output is the container node only.
C14_NoStagesContainerOnly ==
    (NodesReturned /\ NStages = 0) => NodeTypes(retNodes) = <<"workflow">>

\* C14 amended: with no stages the output has no stage node; it still has the
\* PMF tag, the container, one node per status node and the entities group.
C14_NoStagesNoStageNode ==
    (NodesReturned /\ NStages = 0) =>
        /\ Len(retNodes) = 3 + Len(workflowData.statusNodes)
        /\ retNodes[1].type = "pmf-tag"
        /\ retNodes[2].type = "workflow"
        /\ retNodes[2].id = workflowData.workflow.id
        /\ \A i \in 1..Len(workflowData.statusNodes) :
               /\ retNodes[2 + i].type = "circular"
               /\ retNodes[2 + i].id = workflowData.statusNodes[i].id
        /\ GroupNode(retNodes).type = "entities-group"

C14_Witness ==
    /\ NodesReturned /\ NStages = 0
    /\ Len(workflowData.statusNodes) = 2
    /\ Len(workflowData.entities) = 1
    /\ Len(retNodes) = 5

NStatus == Len(workflowData.statusNodes)

Half(n) == Over(Num(n), Num(2))

\* C18: a status node at index i that has a stage at index i is horizontally
\* centred under that stage, x + circleSize/2 = stage x + stageWidth/2, and
\* its y is stageY + stageHeight + verticalSpacing.
C18_StatusCentredUnderStage ==
    NodesReturned =>
        \A i \in 0..(NStatus - 1) :
            i < NStages =>
                /\ Plus(CircleNodeAt(i).position.x, Half(config.circleSize))
                       = Plus(StageX(i), Half(config.stageWidth))
                /\ CircleNodeAt(i).position.y
                       = Num(stageY + config.stageHeight + config.verticalSpacing)

C18_Witness ==
    /\ NodesReturned
    /\ NStages = 3 /\ NStatus = 4
    /\ config.circleSize = 51 /\ config.stageWidth = 100
    /\ CircleNodeAt(2).type = "circular"
    /\ StageNodeAt(2).type = "stage"
    /\ Plus(CircleNodeAt(2).position.x, Half(51)) = Plus(StageX(2), Num(50))
    /\ CircleNodeAt(2).position.y = Num(200)

\* C19: with 0 or 1 stages the layout is computed without a division by zero
\* and the stageSpacing it reports is 0.
C19_FewStagesReportZeroSpacing ==
    (LayoutReturned /\ NStages <= 1) => layout.stageSpacing = Num(0)

----------------------------------------------------------------------------
(* Further properties of generateIntelligentConnections (ConnSpec) *)

\* C15: with no stages the inferred edge list is empty, whatever the status
\* nodes are and whatever they declare.
C15_NoStagesNoEdges ==
    (Inferred /\ Len(Stages) = 0) => retEdges = <<>>

C15_Witness ==
    /\ Inferred /\ Len(Stages) = 0
    /\ Len(Statuses) = 3
    /\ \E j \in 1..Len(Statuses) : HasLink(Statuses[j]) /\ Statuses[j].connectedToStage = "A"
    /\ \E j \in 1..Len(Statuses) : ~ HasLink(Statuses[j])
    /\ retEdges = <<>>

StageIds == {Stages[i].id : i \in 1..Len(Stages)}

\* 1-based indexes of the status nodes whose connectedToStage is no stage's id
Dangling == {j \in 1..Len(Statuses) :
                HasLink(Statuses[j]) /\ Statuses[j].connectedToStage \notin StageIds}

WithoutLink(status) == [f \in DOMAIN status \ {"connectedToStage"} |-> status[f]]

\* the same WorkflowData with the connectedToStage of status node j removed
LinkRemoved(j) ==
    [workflowData EXCEPT !.statusNodes =
        [k \in 1..Len(Statuses) |-> IF k = j THEN WithoutLink(Statuses[k]) ELSE Statuses[k]]]

\* C17: a status node whose connectedToStage is the id of no stage counts as
\* having no link: generateIntelligentConnections returns exactly the edges
\* it returns for the same data with that connectedToStage removed.
C17_DanglingLinkIsNoLink ==
    Inferred =>
        \A j \in Dangling : retEdges = generateIntelligentConnections(LinkRemoved(j))

C17_Witness ==
    /\ Inferred
    /\ Len(Stages) = 2 /\ Len(Statuses) = 2
    /\ 1 \in Dangling
    /\ Statuses[1].connectedToStage = "no-such-stage"
    /\ \E k \in 1..Len(retEdges) :
            retEdges[k].source = Stages[1].id /\ retEdges[k].target = Statuses[1].id
    /\ retEdges = generateIntelligentConnections(LinkRemoved(1))

StatusIds == {Statuses[j].id : j \in 1..Len(Statuses)}

ConnEntityIds == {workflowData.entities[k].id : k \in 1..Len(workflowData.entities)}

NamesEntities(status) == "connectedToEntities" \in DOMAIN status

\* C20: every edge of generateIntelligentConnections joins one stage and one
\* status node, in either direction: never an entity, never two stages and
\* never two status nodes, also when status nodes carry connectedToEntities.
C20_EdgesJoinStageAndStatus ==
    Inferred =>
        \A k \in 1..Len(retEdges) :
            /\ \/ retEdges[k].source \in StageIds /\ retEdges[k].target \in StatusIds
               \/ retEdges[k].source \in StatusIds /\ retEdges[k].target \in StageIds
            /\ retEdges[k].source \notin ConnEntityIds
            /\ retEdges[k].target \notin ConnEntityIds

C20_Witness ==
    /\ Inferred
    /\ Len(Stages) = 2 /\ Len(Statuses) = 2
    /\ \A j \in 1..Len(Statuses) :
            NamesEntities(Statuses[j]) /\ Statuses[j].connectedToEntities[1] \in ConnEntityIds
    /\ Len(retEdges) = 3
    /\ \E k \in 1..Len(retEdges) :
            retEdges[k].source \in StageIds /\ retEdges[k].target \in StatusIds
    /\ \E k \in 1..Len(retEdges) :
            retEdges[k].source \in StatusIds /\ retEdges[k].target \in StageIds

CalledTwice == called = "generateIntelligentConnections twice"

StageEdgesInto(id) ==
    {k \in 1..Len(retEdges) : retEdges[k].target = id /\ retEdges[k].source \in StageIds}

\* C25: in the inferred edge list every status node is the target of at most
\* one stage-to-status edge: no status node is paired with two stages, one
\* by connectedToStage and another by the positional fallback.
C25_StatusPairedWithOneStage ==
    Inferred =>
        \A j \in 1..Len(Statuses) : Cardinality(StageEdgesInto(Statuses[j].id)) <= 1

Successors(S) == {p[2] : p \in {q \in Pairs(retEdges) : q[1] \in S}}

\* the ids reached from the ids in S by at most n further edges
RECURSIVE ReachedWithin(_, _)
ReachedWithin(S, n) ==
    IF n = 0 THEN S ELSE ReachedWithin(S \cup Successors(S), n - 1)

OnCycle(id) == id \in ReachedWithin(Successors({id}), Cardinality(StageIds \cup StatusIds))

\* C26: the directed graph of the inferred edges is acyclic: following edges
\* from a stage or status node never returns to it, also when a
\* connectedToStage names a stage at another index than the status node's.
C26_InferredGraphAcyclic ==
    Inferred => \A id \in StageIds \cup StatusIds : ~ OnCycle(id)

----------------------------------------------------------------------------
(* Properties of the handling of malformed WorkflowData (ValidationSpec) *)

\* C16: a WorkflowData with workflow, stages, statusNodes or entities absent,
\* or with stages, statusNodes or entities not a list, is rejected with an
\* error before any layout or edge is computed.
C16_MalformedDataRejected ==
    (called = "WorkflowBuilder" /\ ~ WellFormed(workflowData)) =>
        /\ thrown # "none"
        /\ retNodes = NoValue
        /\ retEdges = NoValue

----------------------------------------------------------------------------
(* Further properties of WorkflowBuilder (Spec) *)

\* C29: after any sequence of workflow selections, from the sidebar or through
\* the props VisualizationPage supplies, the workflow id the sidebar
\* highlights is the id of the workflow whose data is displayed.
C29_SidebarHighlightsDisplayedWorkflow ==
    mode \in {"standalone", "page"} => selectedWorkflowId = shownData

----------------------------------------------------------------------------
(* Properties of useWorkflowData (HookSpec) *)

CatalogEntry(id) == IF id \in DOMAIN mockWorkflows THEN id ELSE Null

\* C22: useWorkflowData(type, id) returns null when type or id is null;
\* otherwise the fetched backend data when that is non-null, else the catalog
\* entry mockWorkflows[id], else null.
C22_ReturnValueByCases ==
    hookResult = IF hookType = Null \/ hookId = Null THEN Null
                 ELSE IF backendData # Null THEN backendData
                 ELSE CatalogEntry(hookId)

C22_Witness ==
    /\ hookType = Null /\ hookId = "workflow-1"
    /\ backendData = "hypo-loan"
    /\ fetches = <<>>
    /\ hookResult = Null

\* C23: at every moment the value returned for a non-null id is null or the
\* catalog entry of that same id, never the data of another workflow that
\* was requested before.
C23_NeverAnotherWorkflowsData ==
    hookId # Null => hookResult \in {Null, CatalogEntry(hookId)}

\* C24 as stated: once every fetch has completed, the value returned for the
\* current non-null id is mockWorkflows[id], or null when the catalog has no
\* such id.
C24_SettledValueForNonNullId ==
    (fetches = <<>> /\ hookId # Null) => hookResult = CatalogEntry(hookId)

\* C24 amended: once every fetch has completed, the value returned for the
\* current non-null type and non-null id is mockWorkflows[id], or null when
\* the catalog has no such id; with a null type it is null.
C24_SettledValueForNonNullTypeAndId ==
    (fetches = <<>> /\ hookId # Null) =>
        hookResult = IF hookType = Null THEN Null ELSE CatalogEntry(hookId)

C24_Witness ==
    /\ fetches = <<>>
    /\ hookType = "entity" /\ hookId = "hypo-loan"
    /\ backendData = "hypo-loan"
    /\ hookResult = "hypo-loan"

----------------------------------------------------------------------------
(* Properties of SelectionProvider (SelectionSpec) *)

\* C30: after any sequence of updateSelection, updateCustomizations and
\* clearSelection calls, selectedType is null exactly when selectedId is
\* null; updateCustomizations leaves selectedType and selectedId as they
\* were, updateSelection leaves the customizations as they were, and
\* clearSelection gives the default state with all three customizations true.
C30_SelectionStateConsistent ==
    /\ (selection.selectedType = Null) <=> (selection.selectedId = Null)
    /\ selectionCall = "updateCustomizations" =>
           /\ selection.selectedType = prevSelection.selectedType
           /\ selection.selectedId = prevSelection.selectedId
    /\ selectionCall = "updateSelection" =>
           selection.customizations = prevSelection.customizations
    /\ selectionCall = "clearSelection" =>
           /\ selection.selectedType = Null
           /\ selection.selectedId = Null
           /\ \A k \in CustomizationKeys : selection.customizations[k] = TRUE

\* a selection with changed customizations is cleared
C30_Witness ==
    /\ selectionCall = "clearSelection"
    /\ prevSelection.selectedType = "entity"
    /\ prevSelection.selectedId = "loan-entity"
    /\ \A k \in CustomizationKeys : prevSelection.customizations[k] = FALSE
    /\ selection = defaultSelection

====
